---- MODULE Spec2Model ----
(***************************************************************************)
(* A model of src/src/gemm.rs: the public wrapper gemm_basic, the generic  *)
(* driver gemm_basic_generic (stride normalisation, the degenerate         *)
(* handlers, the blocked driver and its fork/join over worker closures),   *)
(* the workspace sizer gemm_req and the triple-loop gemm_fallback.         *)
(*                                                                         *)
(* Element arithmetic is exact (integers).  The scalar kernel set is the   *)
(* one modelled (N = 1, MR = 2, NR = 4) with T = f64.  The micro-kernels,  *)
(* the packers and the block-size oracle live outside gemm.rs and are      *)
(* taken at the contract the specification states for them.                *)
(***************************************************************************)
EXTENDS Integers, Sequences, FiniteSets, TLC

VARIABLES
    inp,         \* the caller's arguments to gemm / gemm_req
    pc,          \* position of the calling thread
    g,           \* locals of gemm_basic_generic (mutable arguments, block sizes, loop indices)
    dmem,        \* the destination buffer, by element address
    packed_rhs,  \* shared scratch: <<>> = never written, <<v>> = holds v
    packed_lhs,  \* per-thread scratch, same encoding
    w,           \* the worker closures `func(tid)` of the current step
    ev,          \* what the call has done so far (reads, carve, packs, forks)
    hist,        \* per destination address, the kernel applications it received
    ran,         \* per job of the current step, the workers that executed it
    req,         \* gemm_req: the state of one size computation
    fb           \* gemm_fallback: the state of one call

vars == <<inp, pc, g, dmem, packed_rhs, packed_lhs, w, ev, hist, ran, req, fb>>

----------------------------------------------------------------------------
(* Bounds of the model *)

MaxM == 4
MaxN == 5
MaxK == 3
MaxThreads == 2
\* The source's cutoff is 48 * 48 * 256 elements of work; the model measures
\* work in the same unit but scales the cutoff down so that shapes within
\* MaxM x MaxN x MaxK fall on both sides of it.
SmallWorkload == 16

(* Program constants: the scalar kernel set, T = f64 *)

N == 1
MR == 2 * N
NR == 4
MR_DIV_N == MR \div N
SIZE_OF_T == 8
CACHELINE_ALIGN == 64
PACK_LHS_MIN_N == 16

----------------------------------------------------------------------------
(* Helpers *)

Min(a, b) == IF a <= b THEN a ELSE b
Max(a, b) == IF a >= b THEN a ELSE b
Abs(a) == IF a < 0 THEN -a ELSE a

div_ceil(a, b) ==
    LET div == a \div b
        rem == a % b
    IN  IF rem = 0 THEN div ELSE div + 1

RECURSIVE SeqSum(_)
SeqSum(s) == IF s = <<>> THEN 0 ELSE s[1] + SeqSum(Tail(s))

----------------------------------------------------------------------------
(* The caller's matrices.  A view is (base, rs, cs) over a dense buffer of  *)
(* rows x cols elements (at least one cell), column- or row-major, either   *)
(* axis possibly reversed (negative stride, base at the far end).           *)

Layouts == {"col", "row"}
Signs == {1, -1}

View(rows, cols, lay, sr, sc) ==
    LET ars == IF lay = "col" THEN 1 ELSE Max(cols, 1)
        acs == IF lay = "col" THEN Max(rows, 1) ELSE 1
    IN  [ rs   |-> sr * ars,
          cs   |-> sc * acs,
          base |-> (IF sr < 0 /\ rows > 0 THEN (rows - 1) * ars ELSE 0)
                 + (IF sc < 0 /\ cols > 0 THEN (cols - 1) * acs ELSE 0),
          size |-> Max(rows, 1) * Max(cols, 1),
          rows |-> rows, cols |-> cols, lay |-> lay ]

\* The address of element (i, j) of view v, as the caller sees it.
AddrOf(v, i, j) == v.base + i * v.rs + j * v.cs

\* The logical index <<i, j>> stored at address a of the buffer behind view v
\* (<<-1, -1>> for a cell no index maps to, or an address outside the buffer).
IndexAt(v, a) ==
    LET lead == IF v.lay = "col" THEN Max(v.rows, 1) ELSE Max(v.cols, 1)
        fast == a % lead
        slow == a \div lead
        r0   == IF v.lay = "col" THEN fast ELSE slow
        c0   == IF v.lay = "col" THEN slow ELSE fast
        i    == IF v.rs < 0 THEN v.rows - 1 - r0 ELSE r0
        j    == IF v.cs < 0 THEN v.cols - 1 - c0 ELSE c0
    IN  IF a < 0 \/ a >= v.size \/ i < 0 \/ i >= v.rows \/ j < 0 \/ j >= v.cols
        THEN <<-1, -1>> ELSE <<i, j>>

\* Element values: distinct enough that a wrong pairing of indices shows.
LVal(i, p) == 2 * i + 3 * p + 1
RVal(p, j) == 5 * p - 2 * j + 2
DVal(i, j) == 10 * i + j + 1

\* The destination buffer as the caller hands it over.
DMemIn(v) ==
    [ a \in 0 .. v.size - 1 |->
        LET ij == IndexAt(v, a) IN IF ij[1] < 0 THEN 0 ELSE DVal(ij[1], ij[2]) ]

\* Whether an address lies on an element of the caller's L or R buffer.
SrcOk(buf, off) ==
    IndexAt(IF buf = "L" THEN inp.L ELSE inp.R, off)[1] >= 0

\* A read of the caller's L or R buffer (0 outside it; see SrcOk).
SrcRead(buf, off) ==
    LET ij == IndexAt(IF buf = "L" THEN inp.L ELSE inp.R, off)
    IN  IF ij[1] < 0 THEN 0
        ELSE IF buf = "L" THEN LVal(ij[1], ij[2]) ELSE RVal(ij[1], ij[2])

\* The mathematical contract for element (i, j) of the caller's D.
Reference(i, j) ==
    LET dot == SeqSum([ p \in 1 .. inp.k |-> LVal(i, p - 1) * RVal(p - 1, j) ])
    IN  IF inp.read_dst THEN inp.alpha * DVal(i, j) + inp.beta * dot
        ELSE inp.beta * dot

----------------------------------------------------------------------------
(* The block-size oracle kernel_params (crate::cache, outside gemm.rs):    *)
(* a pure function returning strictly positive (kc, mc, nc) with MR | mc   *)
(* and NR | nc.  One call of gemm or gemm_req queries it at (m, n, k) and  *)
(* at (n, m, k) only, so its value at those two points is all of it that   *)
(* a call can see; both values are inputs.                                 *)

\* The answers tried: every pair of (kc, mc), (kc, nc), (mc, nc) values occurs.
KernelParamsRange ==
    { [ kc |-> 2, mc |-> MR,     nc |-> NR ],
      [ kc |-> 2, mc |-> 2 * MR, nc |-> 2 * NR ],
      [ kc |-> 4, mc |-> MR,     nc |-> 2 * NR ],
      [ kc |-> 4, mc |-> 2 * MR, nc |-> NR ] }

kernel_params(m, n, k) ==
    IF <<m, n>> = <<inp.m, inp.n>> THEN inp.kp_mn ELSE inp.kp_nm

----------------------------------------------------------------------------
(* Initial states *)

NoPtr == [ buf |-> "none", off |-> 0 ]

GInit ==
    [ m |-> 0, n |-> 0, k |-> 0,
      dst |-> 0, dst_cs |-> 0, dst_rs |-> 0,
      lhs |-> NoPtr, lhs_cs |-> 0, lhs_rs |-> 0,
      rhs |-> NoPtr, rhs_cs |-> 0, rhs_rs |-> 0,
      alpha |-> 0, n_threads |-> 0,
      transposed |-> FALSE, gevm |-> FALSE,
      kc |-> 0, mc |-> 0, nc |-> 0,
      packed_rhs_stride |-> 0, packed_lhs_stride |-> 0,
      do_pack_rhs |-> FALSE,
      col_outer |-> 0, depth_outer |-> 0, alpha_s |-> 0,
      n_chunk |-> 0, k_chunk |-> 0, n_jobs |-> 0, n_threads_step |-> 0 ]

ReqIdle == [ pc |-> "idle" ]
FbIdle == [ pc |-> "idle" ]

\* (alpha, beta, read_dst) as the caller may pass them
Scalars ==
    { <<1, 2, TRUE>>, <<3, 2, TRUE>>, <<3, 2, FALSE>> }

Input(m, n, k, dl, ds, ll, rl, lrs, sc, t, kp) ==
    [ m |-> m, n |-> n, k |-> k,
      D |-> View(m, n, dl, ds[1], ds[2]),
      L |-> View(m, k, ll, 1, lrs),
      R |-> View(k, n, rl, lrs, 1),
      alpha |-> sc[1], beta |-> sc[2], read_dst |-> sc[3],
      n_threads |-> t, kp_mn |-> kp, kp_nm |-> kp ]

----------------------------------------------------------------------------
(* gemm_basic: the per-type wrapper.  A row-major-ish destination          *)
(* (dst_cs < dst_rs) is handed to the driver transposed.                   *)

do_transpose(c) == c.D.cs < c.D.rs

GemmBasicArgs(c) ==
    IF do_transpose(c)
    THEN [ GInit EXCEPT
             !.m = c.n, !.n = c.m, !.k = c.k,
             !.dst = c.D.base, !.dst_cs = c.D.rs, !.dst_rs = c.D.cs,
             !.lhs = [ buf |-> "R", off |-> c.R.base ],
             !.lhs_cs = c.R.rs, !.lhs_rs = c.R.cs,
             !.rhs = [ buf |-> "L", off |-> c.L.base ],
             !.rhs_cs = c.L.rs, !.rhs_rs = c.L.cs,
             !.alpha = c.alpha, !.n_threads = c.n_threads,
             !.transposed = TRUE ]
    ELSE [ GInit EXCEPT
             !.m = c.m, !.n = c.n, !.k = c.k,
             !.dst = c.D.base, !.dst_cs = c.D.cs, !.dst_rs = c.D.rs,
             !.lhs = [ buf |-> "L", off |-> c.L.base ],
             !.lhs_cs = c.L.cs, !.lhs_rs = c.L.rs,
             !.rhs = [ buf |-> "R", off |-> c.R.base ],
             !.rhs_cs = c.R.cs, !.rhs_rs = c.R.rs,
             !.alpha = c.alpha, !.n_threads = c.n_threads ]

GemmBasic ==
    /\ pc = "call"
    /\ g' = GemmBasicArgs(inp)
    /\ pc' = "generic"
    /\ UNCHANGED <<inp, dmem, packed_rhs, packed_lhs, w, ev, hist, ran, req, fb>>

----------------------------------------------------------------------------
(* gemm_basic_generic, lines 64-87: the empty-output return and the        *)
(* pre-normalisation of the strides.                                       *)

\* Mutant: only m is tested.
EmptyOutput_OnlyM(a) == a.m = 0

\* if m == 0 || n == 0 { return; }
EmptyOutput(a) == a.m = 0 \/ a.n = 0

ReturnEmpty ==
    /\ pc = "generic"
    /\ EmptyOutput(g)
    /\ pc' = "done"
    /\ UNCHANGED <<inp, g, dmem, packed_rhs, packed_lhs, w, ev, hist, ran, req, fb>>

Offset(p, d) == [ p EXCEPT !.off = @ + d ]

\* Mutant: the row reversal of D is not mirrored on L.
NegDstRs_NoMirror(a) ==
    IF a.dst_rs < 0
    THEN [ a EXCEPT !.dst = @ + (a.m - 1) * a.dst_rs, !.dst_rs = -a.dst_rs ]
    ELSE a

NegDstRs(a) ==
    IF a.dst_rs < 0
    THEN [ a EXCEPT !.dst = @ + (a.m - 1) * a.dst_rs, !.dst_rs = -a.dst_rs,
                    !.lhs = Offset(@, (a.m - 1) * a.lhs_rs), !.lhs_rs = -a.lhs_rs ]
    ELSE a

\* Mutant: the column reversal of D is not mirrored on R.
NegDstCs_NoMirror(a) ==
    IF a.dst_cs < 0
    THEN [ a EXCEPT !.dst = @ + (a.n - 1) * a.dst_cs, !.dst_cs = -a.dst_cs ]
    ELSE a

NegDstCs(a) ==
    IF a.dst_cs < 0
    THEN [ a EXCEPT !.dst = @ + (a.n - 1) * a.dst_cs, !.dst_cs = -a.dst_cs,
                    !.rhs = Offset(@, (a.n - 1) * a.rhs_cs), !.rhs_cs = -a.rhs_cs ]
    ELSE a

\* gevm case => transpose
GevmCondition(a) == a.m <= 4 /\ Abs(a.rhs_cs) <= Abs(a.rhs_rs)

\* Mutant: the strides and operands are swapped but (m, n) are not.
GevmTranspose_KeepsExtents(a) ==
    IF GevmCondition(a)
    THEN [ a EXCEPT !.dst_rs = a.dst_cs, !.dst_cs = a.dst_rs,
                    !.lhs = a.rhs, !.lhs_cs = a.rhs_rs, !.lhs_rs = a.rhs_cs,
                    !.rhs = a.lhs, !.rhs_cs = a.lhs_rs, !.rhs_rs = a.lhs_cs,
                    !.gevm = TRUE ]
    ELSE a

GevmTranspose(a) ==
    IF GevmCondition(a)
    THEN [ a EXCEPT !.dst_rs = a.dst_cs, !.dst_cs = a.dst_rs,
                    !.lhs = a.rhs, !.lhs_cs = a.rhs_rs, !.lhs_rs = a.rhs_cs,
                    !.rhs = a.lhs, !.rhs_cs = a.lhs_rs, !.rhs_rs = a.lhs_cs,
                    !.m = a.n, !.n = a.m, !.gevm = TRUE ]
    ELSE a

Normalised(a) == GevmTranspose(NegDstCs(NegDstRs(a)))

Normalise ==
    /\ pc = "generic"
    /\ ~EmptyOutput(g)
    /\ g' = Normalised(g)
    /\ pc' = "dispatch"
    /\ UNCHANGED <<inp, dmem, packed_rhs, packed_lhs, w, ev, hist, ran, req, fb>>

----------------------------------------------------------------------------
(* The degenerate handlers, lines 89-197.  Each runs on the calling thread. *)

DstAddr(a, row, col) == a.dst + row * a.dst_rs + col * a.dst_cs
DstOk(a, row, col) == DstAddr(a, row, col) \in DOMAIN dmem

\* for col in 0..n { for row in 0..m { *dst(row, col) = val(row, col) } }
\* val[<<row, col>>] is the value stored at (row, col).
ViewIndex(a) == (0 .. a.m - 1) \X (0 .. a.n - 1)

StoreView(mem, a, val) ==
    [ x \in DOMAIN mem |->
        LET hit == { rc \in ViewIndex(a) : DstAddr(a, rc[1], rc[2]) = x }
        IN  IF hit = {} THEN mem[x] ELSE val[CHOOSE rc \in hit : TRUE] ]

ViewInBounds(a) ==
    \A row \in 0 .. a.m - 1, col \in 0 .. a.n - 1 : DstOk(a, row, col)

\* Mutant: the destination is zeroed whatever read_dst says.
zero_dst_AlwaysZero(mem, a) ==
    StoreView(mem, a, [ rc \in ViewIndex(a) |-> 0 ])

zero_dst(mem, a) ==
    IF inp.read_dst
    THEN StoreView(mem, a, [ rc \in ViewIndex(a) |->
                                a.alpha * mem[DstAddr(a, rc[1], rc[2])] ])
    ELSE StoreView(mem, a, [ rc \in ViewIndex(a) |-> 0 ])

Flag(cond, name) == IF cond THEN {} ELSE {name}

ZeroDepth ==
    /\ pc = "dispatch"
    /\ g.k = 0
    /\ dmem' = zero_dst(dmem, g)
    /\ ev' = ev \cup {"zero_dst"} \cup Flag(ViewInBounds(g), "oob")
    /\ pc' = "done"
    /\ UNCHANGED <<inp, g, packed_rhs, packed_lhs, w, hist, ran, req, fb>>

mul_add(a, b, c) == a * b + c

RankOneValue(mem, a, row, col) ==
    LET rhs == inp.beta * SrcRead(a.rhs.buf, a.rhs.off + col * a.rhs_cs)
        lhs == SrcRead(a.lhs.buf, a.lhs.off + row * a.lhs_rs)
        dst == mem[DstAddr(a, row, col)]
    IN  IF inp.read_dst
        THEN IF a.alpha = 1 THEN mul_add(lhs, rhs, dst)
             ELSE a.alpha * dst + lhs * rhs
        ELSE lhs * rhs

RankOneInBounds(a) ==
    /\ ViewInBounds(a)
    /\ \A col \in 0 .. a.n - 1 : SrcOk(a.rhs.buf, a.rhs.off + col * a.rhs_cs)
    /\ \A row \in 0 .. a.m - 1 : SrcOk(a.lhs.buf, a.lhs.off + row * a.lhs_rs)

RankOne ==
    /\ pc = "dispatch"
    /\ g.k = 1
    /\ dmem' = StoreView(dmem, g, [ rc \in ViewIndex(g) |->
                                      RankOneValue(dmem, g, rc[1], rc[2]) ])
    /\ ev' = ev \cup {"read_lhs", "read_rhs"} \cup Flag(RankOneInBounds(g), "oob")
    /\ pc' = "done"
    /\ UNCHANGED <<inp, g, packed_rhs, packed_lhs, w, hist, ran, req, fb>>

\* gemv case
GemvCondition(a) == a.n <= 4 /\ Abs(a.lhs_rs) <= Abs(a.lhs_cs)

\* for depth in 0..k { rhsCOL = beta * rhs(depth, COL);
\*   for row in 0..m { lhs = lhs(row, depth); dst(row, COL) += rhsCOL * lhs } }
GemvValue(zeroed, a, row, col) ==
    zeroed[DstAddr(a, row, col)]
      + SeqSum([ d \in 1 .. a.k |->
            (inp.beta * SrcRead(a.rhs.buf,
                                a.rhs.off + col * a.rhs_cs + (d - 1) * a.rhs_rs))
            * SrcRead(a.lhs.buf, a.lhs.off + (d - 1) * a.lhs_cs + row * a.lhs_rs) ])

GemvInBounds(a) ==
    /\ ViewInBounds(a)
    /\ \A d \in 0 .. a.k - 1 :
        /\ \A col \in 0 .. a.n - 1 :
             SrcOk(a.rhs.buf, a.rhs.off + col * a.rhs_cs + d * a.rhs_rs)
        /\ \A row \in 0 .. a.m - 1 :
             SrcOk(a.lhs.buf, a.lhs.off + d * a.lhs_cs + row * a.lhs_rs)

Gemv ==
    /\ pc = "dispatch"
    /\ g.k > 1
    /\ GemvCondition(g)
    /\ LET zeroed == zero_dst(dmem, g)
       IN  dmem' = StoreView(zeroed, g, [ rc \in ViewIndex(g) |->
                                          GemvValue(zeroed, g, rc[1], rc[2]) ])
    /\ ev' = ev \cup {"zero_dst", "read_lhs", "read_rhs"} \cup Flag(GemvInBounds(g), "oob")
    /\ pc' = "done"
    /\ UNCHANGED <<inp, g, packed_rhs, packed_lhs, w, hist, ran, req, fb>>

----------------------------------------------------------------------------
(* The packers (crate::pack_operands) and the micro-kernels                *)
(* (crate::microkernel), at their contract.                                *)

Cell(v) == <<v>>
Unwritten == <<>>

\* pack_rhs::<T, NR>(n_chunk, k_chunk, dst, src, src_cs, src_rs, dst_stride):
\* block j holds columns [j*NR, min((j+1)*NR, n_chunk)), row stride NR, column stride 1.
pack_rhs(buf, n_chunk, k_chunk, src, src_cs, src_rs, dst_stride) ==
    [ x \in DOMAIN buf |->
        LET j == x \div dst_stride
            r == x % dst_stride
            p == r \div NR
            c == r % NR
        IN  IF j < div_ceil(n_chunk, NR) /\ p < k_chunk /\ j * NR + c < n_chunk
            THEN Cell(SrcRead(src.buf, src.off + p * src_rs + (j * NR + c) * src_cs))
            ELSE buf[x] ]

\* pack_lhs::<T, MR>(m_chunk, k_chunk, dst, src, src_cs, src_rs, dst_stride):
\* block i holds rows [i*MR, min((i+1)*MR, m_chunk)), row stride 1, column stride MR.
\* dst is the worker's own sub-region, starting at element `base` of the buffer.
pack_lhs(buf, base, m_chunk, k_chunk, src, src_cs, src_rs, dst_stride) ==
    [ x \in DOMAIN buf |->
        LET y == x - base
            i == y \div dst_stride
            q == y % dst_stride
            p == q \div MR
            r == q % MR
        IN  IF y >= 0 /\ i < div_ceil(m_chunk, MR) /\ p < k_chunk /\ i * MR + r < m_chunk
            THEN Cell(SrcRead(src.buf, src.off + (i * MR + r) * src_rs + p * src_cs))
            ELSE buf[x] ]

\* Whether every element pack_lhs writes lies inside the buffer.
PackLhsInBounds(buf, base, m_chunk, dst_stride) ==
    base + div_ceil(m_chunk, MR) * dst_stride - 1 \in DOMAIN buf

PackRhsInBounds(buf, n_chunk, dst_stride) ==
    div_ceil(n_chunk, NR) * dst_stride - 1 \in DOMAIN buf

\* One operand element as a kernel sees it: from the caller's buffer or from scratch.
\* ptr = [buf, off] with buf one of "L", "R", "packed_lhs", "packed_rhs".
Scratch(name) == IF name = "packed_lhs" THEN packed_lhs ELSE packed_rhs
IsScratch(name) == name \in {"packed_lhs", "packed_rhs"}

OperandOk(ptr, d) ==
    IF IsScratch(ptr.buf) THEN (ptr.off + d) \in DOMAIN Scratch(ptr.buf)
    ELSE SrcOk(ptr.buf, ptr.off + d)

OperandWritten(ptr, d) ==
    IsScratch(ptr.buf) /\ (ptr.off + d) \in DOMAIN Scratch(ptr.buf)
        => Scratch(ptr.buf)[ptr.off + d] # Unwritten

Operand(ptr, d, junk) ==
    IF IsScratch(ptr.buf)
    THEN IF (ptr.off + d) \in DOMAIN Scratch(ptr.buf)
            /\ Scratch(ptr.buf)[ptr.off + d] # Unwritten
         THEN Scratch(ptr.buf)[ptr.off + d][1]
         ELSE junk
    ELSE SrcRead(ptr.buf, ptr.off + d)

\* The three kernel tables: the zero table ignores dst, the one table adds to it,
\* the general table scales it.
Dispatcher(alpha) ==
    IF alpha = 0 THEN "zero" ELSE IF alpha = 1 THEN "one" ELSE "generic"

KernelValue(table, alpha, d, acc) ==
    CASE table = "zero" -> acc
      [] table = "one" -> d + acc
      [] OTHER -> alpha * d + acc

\* kernel(m, n, k, dst, lhs, rhs, dst_cs, dst_rs, lhs_cs, rhs_rs, rhs_cs, alpha, beta):
\* dst[0..m, 0..n] <- alpha * dst + beta * (lhs . rhs); lhs has row stride 1.
KernelDot(k, lhs, rhs, lhs_cs, rhs_rs, rhs_cs, r, c, junk) ==
    SeqSum([ p \in 1 .. k |->
        Operand(lhs, r + (p - 1) * lhs_cs, junk)
          * Operand(rhs, (p - 1) * rhs_rs + c * rhs_cs, junk) ])

KernelOperands(m, n, k, lhs, rhs, lhs_cs, rhs_rs, rhs_cs) ==
    { <<lhs, r + p * lhs_cs>> : r \in 0 .. m - 1, p \in 0 .. k - 1 }
      \cup { <<rhs, p * rhs_rs + c * rhs_cs>> : p \in 0 .. k - 1, c \in 0 .. n - 1 }

Kernel(mem, table, m, n, k, dst, lhs, rhs, dst_cs, dst_rs, lhs_cs, rhs_rs, rhs_cs, alpha, beta, junk) ==
    [ x \in DOMAIN mem |->
        LET hit == { rc \in (0 .. m - 1) \X (0 .. n - 1) :
                        dst + rc[1] * dst_rs + rc[2] * dst_cs = x }
        IN  IF hit = {} THEN mem[x]
            ELSE LET rc == CHOOSE rc \in hit : TRUE
                 IN  KernelValue(table, alpha, mem[x],
                        beta * KernelDot(k, lhs, rhs, lhs_cs, rhs_rs, rhs_cs,
                                         rc[1], rc[2], junk)) ]

KernelTargets(m, n, dst, dst_cs, dst_rs) ==
    { dst + r * dst_rs + c * dst_cs : r \in 0 .. m - 1, c \in 0 .. n - 1 }

\* The values an uninitialised scratch element may turn out to hold.
JunkValues == {0, 1}

\* A record of which pack wrote a scratch element, kept beside its value: the
\* elements a pack has just written (still bare values) get the pack's tag.
Stamp(buf, tag) ==
    [ x \in DOMAIN buf |-> IF Len(buf[x]) = 1 THEN <<buf[x][1], tag>> ELSE buf[x] ]

----------------------------------------------------------------------------
(* The blocked driver, lines 199-411. *)

simd_stride == CACHELINE_ALIGN \div SIZE_OF_T

\* use a single thread for small workloads
SingleThreaded(m, nc, kc) == m * nc * kc <= SmallWorkload

TopThreads(m, nc, kc, n_threads) ==
    IF SingleThreaded(m, nc, kc) THEN 1 ELSE n_threads

PackedRhsStride(kc) == div_ceil(kc * NR, simd_stride) * simd_stride
PackedLhsStride(kc) == div_ceil(kc * MR, simd_stride) * simd_stride
PackedRhsLen(kc, nc) == PackedRhsStride(kc) * (nc \div NR)
PackedLhsLen(kc, mc, n_threads) == n_threads * PackedLhsStride(kc) * (mc \div MR)

DoPackRhs(a) == a.m > MR /\ Abs(a.rhs_rs) # 1

\* Lines 199-236: block sizes, thread count, scratch, first panel.
Carve ==
    /\ pc = "dispatch"
    /\ g.k > 1
    /\ ~GemvCondition(g)
    /\ LET kp == kernel_params(g.m, g.n, g.k)
           nt == TopThreads(g.m, kp.nc, kp.kc, g.n_threads)
       IN  /\ g' = [ g EXCEPT
                       !.kc = kp.kc, !.mc = kp.mc, !.nc = kp.nc,
                       !.n_threads = nt,
                       !.packed_rhs_stride = PackedRhsStride(kp.kc),
                       !.packed_lhs_stride = PackedLhsStride(kp.kc),
                       !.do_pack_rhs = DoPackRhs(g),
                       !.col_outer = 0,
                       !.alpha = IF inp.read_dst THEN g.alpha ELSE 0 ]
           /\ packed_rhs' = [ x \in 0 .. PackedRhsLen(kp.kc, kp.nc) - 1 |-> Unwritten ]
           /\ packed_lhs' = [ x \in 0 .. PackedLhsLen(kp.kc, kp.mc, nt) - 1 |-> Unwritten ]
    /\ ev' = ev \cup {"kernel_params", "carve"}
    /\ pc' = "panel"
    /\ UNCHANGED <<inp, dmem, w, hist, ran, req, fb>>

\* while col_outer != n { n_chunk = nc.min(n - col_outer); alpha = alpha; depth_outer = 0
Panel ==
    /\ pc = "panel"
    /\ g.col_outer # g.n
    /\ g' = [ g EXCEPT !.n_chunk = Min(g.nc, g.n - g.col_outer),
                       !.alpha_s = g.alpha,
                       !.depth_outer = 0 ]
    /\ pc' = "slice"
    /\ UNCHANGED <<inp, dmem, packed_rhs, packed_lhs, w, ev, hist, ran, req, fb>>

Return ==
    /\ pc = "panel"
    /\ g.col_outer = g.n
    /\ pc' = "done"
    /\ UNCHANGED <<inp, g, dmem, packed_rhs, packed_lhs, w, ev, hist, ran, req, fb>>

\* The row bands of the panel: <<row_outer, m_chunk>> in order.
RECURSIVE Bands(_, _, _)
Bands(m, mc, row_outer) ==
    IF row_outer = m THEN <<>>
    ELSE LET m_chunk == Min(mc, m - row_outer)
         IN  <<<<row_outer, m_chunk>>>> \o Bands(m, mc, row_outer + m_chunk)

\* Mutant: one more column of tiles than a ceiling division gives.
n_col_mini_chunks_OneMore(n_chunk) == n_chunk \div NR + 1
n_col_mini_chunks(n_chunk) == (n_chunk + (NR - 1)) \div NR
n_row_mini_chunks(m_chunk) == (m_chunk + (MR - 1)) \div MR

NJobs(m, mc, n_chunk) ==
    SeqSum([ b \in DOMAIN Bands(m, mc, 0) |->
               n_col_mini_chunks(n_chunk) * n_row_mini_chunks(Bands(m, mc, 0)[b][2]) ])

\* Mutant: the per-step cutoff is not applied.
StepThreads_NoCutoff(m, n_chunk, k_chunk, n_threads) == n_threads

StepThreads(m, n_chunk, k_chunk, n_threads) ==
    IF SingleThreaded(m, n_chunk, k_chunk) THEN 1 ELSE n_threads

\* Mutant: the threads past the remainder start without the `+ rem`.
JobRange_ForgetsRem(tid, n_jobs, n_threads) ==
    LET min_jobs_per_thread == n_jobs \div n_threads
        rem == n_jobs - n_threads * min_jobs_per_thread
    IN  IF tid < rem
        THEN LET start == tid * (min_jobs_per_thread + 1)
             IN  <<start, start + min_jobs_per_thread + 1>>
        ELSE LET start == tid * min_jobs_per_thread
             IN  <<start, start + min_jobs_per_thread>>

\* thread `tid` takes min_jobs_per_thread or min_jobs_per_thread + 1
JobRange(tid, n_jobs, n_threads) ==
    LET min_jobs_per_thread == n_jobs \div n_threads
        rem == n_jobs - n_threads * min_jobs_per_thread
    IN  IF tid < rem
        THEN LET start == tid * (min_jobs_per_thread + 1)
             IN  <<start, start + min_jobs_per_thread + 1>>
        ELSE LET start == tid * min_jobs_per_thread + rem
             IN  <<start, start + min_jobs_per_thread>>

\* Mutant: the sub-regions are spaced one block apart.
PackedLhsBase_OneBlock(tid, a) == tid * a.packed_lhs_stride

\* Mutant: every worker packs into the start of the L buffer.
PackedLhsBase_Shared(tid, a) == 0

PackedLhsBase(tid, a) ==
    tid * a.packed_lhs_stride * Min(a.mc \div MR, div_ceil(a.m, MR))

\* The closure `func(tid)` at its first line.
WorkerInit(tid, a, n_jobs, n_threads) ==
    [ pc |-> "band",
      packed_lhs |-> PackedLhsBase(tid, a),
      job_start |-> JobRange(tid, n_jobs, n_threads)[1],
      job_end |-> JobRange(tid, n_jobs, n_threads)[2],
      row_outer |-> 0, job_id |-> 0, j |-> 0, i |-> 0,
      do_pack_lhs |-> FALSE ]

RhsTag == [ col_outer |-> g.col_outer, depth_outer |-> g.depth_outer ]

\* Mutant: R is packed for the first depth slice of a panel only.
StepPackedRhs_FirstSliceOnly(k_chunk) ==
    IF g.do_pack_rhs /\ g.depth_outer = 0
    THEN Stamp(pack_rhs(packed_rhs, g.n_chunk, k_chunk,
                        Offset(g.rhs, g.depth_outer * g.rhs_rs + g.col_outer * g.rhs_cs),
                        g.rhs_cs, g.rhs_rs, g.packed_rhs_stride),
               RhsTag)
    ELSE packed_rhs

\* if do_pack_rhs { pack_rhs(n_chunk, k_chunk, packed_rhs, rhs + .., ..) }
StepPackedRhs(k_chunk) ==
    IF g.do_pack_rhs
    THEN Stamp(pack_rhs(packed_rhs, g.n_chunk, k_chunk,
                        Offset(g.rhs, g.depth_outer * g.rhs_rs + g.col_outer * g.rhs_cs),
                        g.rhs_cs, g.rhs_rs, g.packed_rhs_stride),
               RhsTag)
    ELSE packed_rhs

\* Lines 243-285 and 400-405: one (col_outer, depth_outer) step up to the fork.
BeginStep ==
    /\ pc = "slice"
    /\ g.depth_outer # g.k
    /\ LET k_chunk == Min(g.kc, g.k - g.depth_outer)
           n_jobs  == NJobs(g.m, g.mc, g.n_chunk)
           nt      == StepThreads(g.m, g.n_chunk, k_chunk, g.n_threads)
           a       == [ g EXCEPT !.k_chunk = k_chunk, !.n_jobs = n_jobs,
                                 !.n_threads_step = nt ]
       IN  /\ g' = a
           /\ packed_rhs' = StepPackedRhs(k_chunk)
           /\ ev' = ev \cup (IF g.do_pack_rhs THEN {"pack_rhs", "read_rhs"} ELSE {})
                       \cup (IF nt <= 1 THEN {} ELSE {"fork"})
                       \cup Flag(g.do_pack_rhs =>
                                   PackRhsInBounds(packed_rhs, g.n_chunk, g.packed_rhs_stride),
                                 "oob")
           /\ w' = [ tid \in 0 .. Max(nt, 1) - 1 |-> WorkerInit(tid, a, n_jobs, nt) ]
           /\ ran' = [ job \in 0 .. n_jobs - 1 |-> <<>> ]
    /\ pc' = "join"
    /\ UNCHANGED <<inp, dmem, packed_lhs, hist, req, fb>>

\* Mutant: alpha is not set to 1 after the step.
Join_KeepsAlpha ==
    /\ pc = "join"
    /\ \A tid \in DOMAIN w : w[tid].pc = "done"
    /\ g' = [ g EXCEPT !.depth_outer = g.depth_outer + g.k_chunk ]
    /\ w' = <<>>
    /\ pc' = "slice"
    /\ UNCHANGED <<inp, dmem, packed_rhs, packed_lhs, ev, hist, ran, req, fb>>

\* Mutant: the driver goes on without waiting for the workers.
Join_NoWait ==
    /\ pc = "join"
    /\ g' = [ g EXCEPT !.alpha_s = 1, !.depth_outer = g.depth_outer + g.k_chunk ]
    /\ w' = <<>>
    /\ pc' = "slice"
    /\ UNCHANGED <<inp, dmem, packed_rhs, packed_lhs, ev, hist, ran, req, fb>>

\* Lines 406-409: every worker has returned; alpha = 1; depth_outer += k_chunk.
Join ==
    /\ pc = "join"
    /\ \A tid \in DOMAIN w : w[tid].pc = "done"
    /\ g' = [ g EXCEPT !.alpha_s = 1, !.depth_outer = g.depth_outer + g.k_chunk ]
    /\ w' = <<>>
    /\ pc' = "slice"
    /\ UNCHANGED <<inp, dmem, packed_rhs, packed_lhs, ev, hist, ran, req, fb>>

\* depth_outer == k: col_outer += n_chunk
EndPanel ==
    /\ pc = "slice"
    /\ g.depth_outer = g.k
    /\ g' = [ g EXCEPT !.col_outer = g.col_outer + g.n_chunk ]
    /\ pc' = "panel"
    /\ UNCHANGED <<inp, dmem, packed_rhs, packed_lhs, w, ev, hist, ran, req, fb>>

----------------------------------------------------------------------------
(* The worker closure `func(tid)`, lines 286-398.  Workers of one step run *)
(* concurrently; a step of a worker is one pass through the head of the    *)
(* row-band loop or one iteration of the tile loop.                        *)

MChunk(me) == Min(g.mc, g.m - me.row_outer)
NMiniJobs(me) == n_col_mini_chunks(g.n_chunk) * n_row_mini_chunks(MChunk(me))

\* while row_outer != m { ... if job_id >= job_end { return; }
WorkerReturn(tid) ==
    /\ pc = "join"
    /\ tid \in DOMAIN w
    /\ w[tid].pc = "band"
    /\ w[tid].row_outer = g.m \/ w[tid].job_id >= w[tid].job_end
    /\ w' = [ w EXCEPT ![tid].pc = "done" ]
    /\ UNCHANGED <<inp, pc, g, dmem, packed_rhs, packed_lhs, ev, hist, ran, req, fb>>

SkipsBand(me) == me.job_id + NMiniJobs(me) < me.job_start

\* if job_id + n_mini_jobs < job_start { row_outer += m_chunk; job_id += n_mini_jobs; continue; }
WorkerSkipBand(tid) ==
    /\ pc = "join"
    /\ tid \in DOMAIN w
    /\ w[tid].pc = "band"
    /\ w[tid].row_outer # g.m
    /\ w[tid].job_id < w[tid].job_end
    /\ SkipsBand(w[tid])
    /\ w' = [ w EXCEPT ![tid].row_outer = @ + MChunk(w[tid]),
                       ![tid].job_id = @ + NMiniJobs(w[tid]) ]
    /\ UNCHANGED <<inp, pc, g, dmem, packed_rhs, packed_lhs, ev, hist, ran, req, fb>>

DoPackLhs(m_chunk, a) ==
    (m_chunk % MR # 0) \/ a.lhs_rs # 1 \/ a.n > PACK_LHS_MIN_N

LhsTag(tid) ==
    [ tid |-> tid, row_outer |-> w[tid].row_outer,
      col_outer |-> g.col_outer, depth_outer |-> g.depth_outer ]

\* Lines 320-337: decide on packing, pack the band, enter the tile loop.
WorkerEnterBand(tid) ==
    /\ pc = "join"
    /\ tid \in DOMAIN w
    /\ w[tid].pc = "band"
    /\ w[tid].row_outer # g.m
    /\ w[tid].job_id < w[tid].job_end
    /\ ~SkipsBand(w[tid])
    /\ LET me == w[tid]
           m_chunk == MChunk(me)
           pack == DoPackLhs(m_chunk, g)
           src == Offset(g.lhs, me.row_outer * g.lhs_rs + g.depth_outer * g.lhs_cs)
       IN  /\ packed_lhs' =
                IF pack
                THEN Stamp(pack_lhs(packed_lhs, me.packed_lhs, m_chunk, g.k_chunk, src,
                                    g.lhs_cs, g.lhs_rs, g.packed_lhs_stride),
                           LhsTag(tid))
                ELSE packed_lhs
           /\ ev' = ev \cup (IF pack THEN {"pack_lhs", "read_lhs"} ELSE {})
                       \cup Flag(pack => PackLhsInBounds(packed_lhs, me.packed_lhs, m_chunk,
                                                         g.packed_lhs_stride),
                                 "oob")
           /\ w' = [ w EXCEPT ![tid].pc = "tile", ![tid].j = 0, ![tid].i = 0,
                              ![tid].do_pack_lhs = pack ]
    /\ UNCHANGED <<inp, pc, g, dmem, packed_rhs, hist, ran, req, fb>>

\* i += 1; at the end of the column, j += 1; at the end of the band, row_outer += m_chunk.
Advance(me) ==
    LET m_chunk == MChunk(me)
        next == [ me EXCEPT !.job_id = @ + 1 ]
    IN  IF me.i + 1 < n_row_mini_chunks(m_chunk)
        THEN [ next EXCEPT !.i = @ + 1 ]
        ELSE IF me.j + 1 < n_col_mini_chunks(g.n_chunk)
        THEN [ next EXCEPT !.i = 0, !.j = @ + 1 ]
        ELSE [ next EXCEPT !.i = 0, !.j = 0, !.pc = "band",
                           !.row_outer = @ + m_chunk ]

\* The row of the kernel table for a tile of m_chunk_inner rows:
\* dispatcher[(m_chunk_inner + (N - 1)) / N - 1][n_chunk_inner - 1]
m_chunk_inner_index(rows_left) == (Min(MR, rows_left) + (N - 1)) \div N - 1

\* Mutant: the upper end of the assignment is not tested.
OwnsJob_NoUpperEnd(me) == ~(me.job_id < me.job_start)

OwnsJob(me) == ~(me.job_id < me.job_start \/ me.job_id >= me.job_end)

\* if job_id < job_start || job_id >= job_end { job_id += 1; i += 1; continue; }
WorkerSkipTile(tid) ==
    /\ pc = "join"
    /\ tid \in DOMAIN w
    /\ w[tid].pc = "tile"
    /\ ~OwnsJob(w[tid])
    /\ w' = [ w EXCEPT ![tid] = Advance(w[tid]) ]
    /\ UNCHANGED <<inp, pc, g, dmem, packed_rhs, packed_lhs, ev, hist, ran, req, fb>>

\* The arguments of the kernel call of lines 354-390 for the worker's current tile.
Tile(me) ==
    LET m_chunk   == MChunk(me)
        col_inner == NR * me.j
        row_inner == MR * me.i
    IN  [ m_chunk_inner |-> Min(MR, m_chunk - row_inner),
          n_chunk_inner |-> Min(NR, g.n_chunk - col_inner),
          dst |-> g.dst + (me.row_outer + row_inner) * g.dst_rs
                        + (g.col_outer + col_inner) * g.dst_cs,
          lhs |-> IF me.do_pack_lhs
                  THEN [ buf |-> "packed_lhs",
                         off |-> me.packed_lhs + me.i * g.packed_lhs_stride ]
                  ELSE Offset(g.lhs, (me.row_outer + row_inner) * g.lhs_rs
                                       + g.depth_outer * g.lhs_cs),
          rhs |-> IF g.do_pack_rhs
                  THEN [ buf |-> "packed_rhs", off |-> me.j * g.packed_rhs_stride ]
                  ELSE Offset(g.rhs, g.depth_outer * g.rhs_rs
                                       + (g.col_outer + col_inner) * g.rhs_cs),
          packed_lhs_cs |-> IF me.do_pack_lhs THEN MR ELSE g.lhs_cs,
          packed_rhs_rs |-> IF g.do_pack_rhs THEN NR ELSE g.rhs_rs,
          packed_rhs_cs |-> IF g.do_pack_rhs THEN 1 ELSE g.rhs_cs,
          row |-> (m_chunk_inner_index(m_chunk - row_inner)),
          col |-> Min(NR, g.n_chunk - col_inner) - 1 ]

WorkerKernel(tid) ==
    /\ pc = "join"
    /\ tid \in DOMAIN w
    /\ w[tid].pc = "tile"
    /\ OwnsJob(w[tid])
    /\ LET me == w[tid]
           t == Tile(me)
           table == Dispatcher(g.alpha_s)
           operands == KernelOperands(t.m_chunk_inner, t.n_chunk_inner, g.k_chunk,
                                      t.lhs, t.rhs, t.packed_lhs_cs,
                                      t.packed_rhs_rs, t.packed_rhs_cs)
           targets == KernelTargets(t.m_chunk_inner, t.n_chunk_inner, t.dst,
                                    g.dst_cs, g.dst_rs)
           written == \A o \in operands : OperandWritten(o[1], o[2])
           inside == /\ \A o \in operands : OperandOk(o[1], o[2])
                     /\ targets \subseteq DOMAIN dmem
                     /\ t.row \in 0 .. MR_DIV_N - 1
                     /\ t.col \in 0 .. NR - 1
           entry == [ col_outer |-> g.col_outer, depth_outer |-> g.depth_outer,
                      k_chunk |-> g.k_chunk, alpha |-> g.alpha_s, table |-> table,
                      tid |-> tid, job |-> me.job_id ]
       IN  /\ \E junk \in (IF written THEN {0} ELSE JunkValues) :
                dmem' = Kernel(dmem, table, t.m_chunk_inner, t.n_chunk_inner, g.k_chunk,
                               t.dst, t.lhs, t.rhs, g.dst_cs, g.dst_rs, t.packed_lhs_cs,
                               t.packed_rhs_rs, t.packed_rhs_cs, g.alpha_s, inp.beta, junk)
           /\ hist' = [ x \in DOMAIN hist |->
                          IF x \in targets THEN Append(hist[x], entry) ELSE hist[x] ]
           /\ ran' = [ ran EXCEPT ![me.job_id] = Append(@, tid) ]
           /\ ev' = ev \cup Flag(written, "uninit_read") \cup Flag(inside, "oob")
                       \cup (IF me.do_pack_lhs THEN {} ELSE {"read_lhs"})
                       \cup (IF g.do_pack_rhs THEN {} ELSE {"read_rhs"})
           /\ w' = [ w EXCEPT ![tid] = Advance(me) ]
    /\ UNCHANGED <<inp, pc, g, packed_rhs, packed_lhs, req, fb>>

Worker(tid) ==
    \/ WorkerReturn(tid)
    \/ WorkerSkipBand(tid)
    \/ WorkerEnterBand(tid)
    \/ WorkerSkipTile(tid)
    \/ WorkerKernel(tid)

----------------------------------------------------------------------------
(* Initial states: a call of gemm about to start. *)

\* Whether call c gets as far as the blocked driver.
ReachesDriver(c) ==
    /\ c.m > 0 /\ c.n > 0 /\ c.k > 1
    /\ ~GemvCondition(Normalised(GemmBasicArgs(c)))

Idle ==
    /\ g = GInit
    /\ packed_rhs = <<>>
    /\ packed_lhs = <<>>
    /\ w = <<>>
    /\ ev = {}
    /\ ran = <<>>

\* A call that ends in a degenerate handler reads neither n_threads nor the
\* oracle: one value of each stands for all of them.
Init ==
    /\ \E m \in 0 .. MaxM, n \in 0 .. MaxN, k \in 0 .. MaxK,
          dl \in Layouts, ds \in Signs \X Signs,
          ll \in Layouts, rl \in Layouts, lrs \in Signs, sc \in Scalars :
         LET kp0 == CHOOSE kp \in KernelParamsRange : TRUE
             reaches == ReachesDriver(Input(m, n, k, dl, ds, ll, rl, lrs, sc, 1, kp0))
         IN  \E t \in (IF reaches THEN 1 .. MaxThreads ELSE {1}),
                kp \in (IF reaches THEN KernelParamsRange ELSE {kp0}) :
                  inp = Input(m, n, k, dl, ds, ll, rl, lrs, sc, t, kp)
    /\ pc = "call"
    /\ Idle
    /\ dmem = DMemIn(inp.D)
    /\ hist = [ a \in 0 .. inp.D.size - 1 |-> <<>> ]
    /\ req = ReqIdle
    /\ fb = FbIdle

----------------------------------------------------------------------------

Next ==
    \/ GemmBasic
    \/ ReturnEmpty
    \/ Normalise
    \/ ZeroDepth
    \/ RankOne
    \/ Gemv
    \/ Carve
    \/ Panel
    \/ Return
    \/ BeginStep
    \/ Join
    \/ EndPanel
    \/ \E tid \in 0 .. MaxThreads - 1 : Worker(tid)

Spec == Init /\ [][Next]_vars

----------------------------------------------------------------------------
(* Properties of the call, checked under Spec. *)

Done == pc = "done"
InDriver == "carve" \in ev
StepOver == pc = "join" /\ \A tid \in DOMAIN w : w[tid].pc = "done"

\* C1: when gemm returns, every element D[i,j] of the caller's view holds
\* alpha*D_in[i,j] + beta*sum_p L[i,p]*R[p,j] (read_dst) or beta*sum_p L[i,p]*R[p,j]
\* (otherwise), whichever path was taken, and no access left the buffers or read
\* scratch that was never written.
C1_Contract ==
    Done =>
        /\ \A i \in 0 .. inp.m - 1, j \in 0 .. inp.n - 1 :
             dmem[AddrOf(inp.D, i, j)] = Reference(i, j)
        /\ "oob" \notin ev
        /\ "uninit_read" \notin ev

\* A parallel run of the blocked driver over several column panels and depth
\* slices, on a destination with reversed rows, has returned.
C1_Witness ==
    /\ Done
    /\ "fork" \in ev
    /\ g.n > g.nc
    /\ g.k > g.kc
    /\ inp.D.rs < 0
    /\ inp.read_dst

\* The run of the blocked driver with one thread: per column panel the depth
\* slices in order, the first with the caller's alpha (0 without read_dst), the
\* later ones with alpha = 1.
RECURSIVE SerialSlices(_, _, _, _)
SerialSlices(k, kc, depth_outer, alpha) ==
    IF depth_outer = k THEN <<>>
    ELSE LET k_chunk == Min(kc, k - depth_outer)
         IN  <<[ depth_outer |-> depth_outer, k_chunk |-> k_chunk, alpha |-> alpha ]>>
               \o SerialSlices(k, kc, depth_outer + k_chunk, 1)

SerialApplications(col) ==
    LET col_outer == (col \div g.nc) * g.nc
        slices == SerialSlices(g.k, g.kc, 0, g.alpha)
    IN  [ s \in DOMAIN slices |->
            [ col_outer |-> col_outer, depth_outer |-> slices[s].depth_outer,
              k_chunk |-> slices[s].k_chunk, alpha |-> slices[s].alpha,
              table |-> Dispatcher(slices[s].alpha) ] ]

RECURSIVE SerialFold(_, _, _, _)
SerialFold(d, apps, row, col) ==
    IF apps = <<>> THEN d
    ELSE LET s == apps[1]
             dot == SeqSum([ p \in 1 .. s.k_chunk |->
                        SrcRead(g.lhs.buf, g.lhs.off + row * g.lhs_rs
                                             + (s.depth_outer + p - 1) * g.lhs_cs)
                          * SrcRead(g.rhs.buf, g.rhs.off + (s.depth_outer + p - 1) * g.rhs_rs
                                                 + col * g.rhs_cs) ])
         IN  SerialFold(KernelValue(s.table, s.alpha, d, inp.beta * dot),
                        Tail(apps), row, col)

Applications(h) ==
    [ e \in DOMAIN h |->
        [ col_outer |-> h[e].col_outer, depth_outer |-> h[e].depth_outer,
          k_chunk |-> h[e].k_chunk, alpha |-> h[e].alpha, table |-> h[e].table ] ]

\* C2: at every moment of the blocked driver each destination element has
\* received a prefix of the kernel applications of the one-thread run, in that
\* order, and holds the value that prefix gives; on return it has received all
\* of them.  The result depends on the inputs and the block sizes, not on
\* n_threads or the interleaving of the workers.
C2_ThreadIndependent ==
    InDriver =>
        \A row \in 0 .. g.m - 1, col \in 0 .. g.n - 1 :
            LET x == DstAddr(g, row, col)
                got == Applications(hist[x])
                serial == SerialApplications(col)
            IN  /\ Len(got) <= Len(serial)
                /\ got = SubSeq(serial, 1, Len(got))
                /\ dmem[x] = SerialFold(DMemIn(inp.D)[x], got, row, col)
                /\ Done => got = serial

\* A run that forked two workers over more than one depth slice has returned.
C2_Witness ==
    /\ Done
    /\ InDriver
    /\ inp.n_threads = 2
    /\ "fork" \in ev
    /\ \E x \in DOMAIN hist :
         /\ Len(hist[x]) >= 2
         /\ \E e \in DOMAIN hist[x] : hist[x][e].tid = 1

InStep(e) == e.col_outer = g.col_outer /\ e.depth_outer = g.depth_outer
StepWrites(x) == { e \in DOMAIN hist[x] : InStep(hist[x][e]) }

PanelAddrs ==
    { DstAddr(g, row, col) :
        row \in 0 .. g.m - 1, col \in g.col_outer .. g.col_outer + g.n_chunk - 1 }

\* C3: within one (col_outer, depth_outer) step no destination element is written
\* twice (by two threads or by two kernel invocations), nothing outside the
\* m x n_chunk panel is written, and when the workers have all returned every
\* element of the panel has been written exactly once.
C3_DisjointCover ==
    pc = "join" =>
        /\ \A x \in DOMAIN hist : Cardinality(StepWrites(x)) <= 1
        /\ \A x \in DOMAIN hist \ PanelAddrs : StepWrites(x) = {}
        /\ StepOver => \A x \in PanelAddrs : Cardinality(StepWrites(x)) = 1

\* Two workers have finished a step in which each of them ran tiles.
C3_Witness ==
    /\ StepOver
    /\ DOMAIN w = {0, 1}
    /\ \E x \in PanelAddrs : \E e \in StepWrites(x) : hist[x][e].tid = 0
    /\ \E x \in PanelAddrs : \E e \in StepWrites(x) : hist[x][e].tid = 1

HeavyEvents ==
    {"read_lhs", "read_rhs", "kernel_params", "carve", "pack_rhs", "pack_lhs", "fork"}

\* C4: with k = 0 (m, n > 0) the call leaves D[i,j] = 0 without read_dst and
\* alpha * D_in[i,j] with it, reads neither operand, and does not query the block
\* sizes, carve scratch, pack or start workers.
C4_ZeroDepth ==
    (inp.k = 0 /\ inp.m > 0 /\ inp.n > 0) =>
        /\ ev \cap HeavyEvents = {}
        /\ packed_rhs = <<>> /\ packed_lhs = <<>> /\ w = <<>>
        /\ Done =>
             \A i \in 0 .. inp.m - 1, j \in 0 .. inp.n - 1 :
                dmem[AddrOf(inp.D, i, j)]
                    = IF inp.read_dst THEN inp.alpha * DVal(i, j) ELSE 0

\* Scenario S6: k = 0, read_dst, alpha = 3 has returned through zero_dst.
C4_Witness ==
    /\ Done
    /\ inp.k = 0 /\ inp.m > 1 /\ inp.n > 1
    /\ inp.read_dst /\ inp.alpha = 3
    /\ "zero_dst" \in ev

\* C5 as stated: whenever any of m, n, k is zero the call returns without
\* writing any element of D.
C5_AnyExtentZero ==
    (Done /\ (inp.m = 0 \/ inp.n = 0 \/ inp.k = 0)) => dmem = DMemIn(inp.D)

\* C5 amended: whenever m or n is zero the call returns at once: it runs no
\* handler and writes no element of D.  (With only k zero it writes D, see C4.)
C5_EmptyOutput ==
    (inp.m = 0 \/ inp.n = 0) => (dmem = DMemIn(inp.D) /\ ev = {} /\ pc # "dispatch")

\* A call with n = 0 and m, k > 0 has returned.
C5_Witness ==
    Done /\ inp.n = 0 /\ inp.m > 0 /\ inp.k > 0

LhsThreads ==
    Cardinality(DOMAIN packed_lhs) \div (g.packed_lhs_stride * (g.mc \div MR))

\* C8: a step runs on the calling thread alone (one worker, tid 0, no fork)
\* whenever the caller passed n_threads = 1 or the step's work
\* m * n_chunk * k_chunk (or the call's m * nc * kc) is within the cutoff; the
\* workers of a step never outnumber the threads the L buffer was carved for.
C8_SmallRunsSerial ==
    pc = "join" =>
        /\ (inp.n_threads = 1
              \/ g.m * g.n_chunk * g.k_chunk <= SmallWorkload
              \/ g.m * g.nc * g.kc <= SmallWorkload)
             => (DOMAIN w = {0} /\ g.n_threads_step = 1)
        /\ Cardinality(DOMAIN w) <= LhsThreads
        /\ g.n_threads_step <= 1 <=> DOMAIN w = {0}

\* A call that asked for two threads and forked in an earlier step runs a lighter
\* step on the calling thread alone.
C8_Witness ==
    /\ pc = "join"
    /\ inp.n_threads = 2
    /\ "fork" \in ev
    /\ g.m * g.n_chunk * g.k_chunk <= SmallWorkload
    /\ DOMAIN w = {0}
    /\ ran[0] # <<>>

MaxJobs == 7

\* The partition of J jobs over T threads the claim describes.
Balanced(J, T, range) ==
    LET q == J \div T
        r == J % T
    IN  /\ \A tid \in 0 .. T - 1 :
             /\ range[tid][2] - range[tid][1] = (IF tid < r THEN q + 1 ELSE q)
             /\ range[tid][1] = (IF tid < r THEN tid * (q + 1) ELSE r + tid * q)
        /\ \A tid \in 0 .. T - 2 : range[tid][2] = range[tid + 1][1]
        /\ \A t1, t2 \in 0 .. T - 1 :
             t1 # t2 => (range[t1][2] <= range[t2][1] \/ range[t2][2] <= range[t1][1])
        /\ \A job \in 0 .. J - 1 :
             \E tid \in 0 .. T - 1 : range[tid][1] <= job /\ job < range[tid][2]
        /\ \A tid \in 0 .. T - 1 : 0 <= range[tid][1] /\ range[tid][2] <= J

\* C10: the job ranges of the workers of a step have lengths q+1 (tid < r) and q,
\* start at tid*(q+1) resp. r + tid*q, are disjoint, contiguous in tid order and
\* cover [0, J); every job is executed at most once, only by the worker whose
\* range holds it, and exactly once when the workers have returned.  The shape
\* of the ranges also holds for every J <= MaxJobs and T <= MaxThreads + 1.
C10_JobPartition ==
    /\ (Done /\ InDriver) =>
         \A J \in 0 .. MaxJobs, T \in 1 .. MaxThreads + 1 :
            Balanced(J, T, [ tid \in 0 .. T - 1 |-> JobRange(tid, J, T) ])
    /\ pc = "join" =>
         /\ DOMAIN w = 0 .. Max(g.n_threads_step, 1) - 1
         /\ Balanced(g.n_jobs, Cardinality(DOMAIN w),
                     [ tid \in DOMAIN w |-> <<w[tid].job_start, w[tid].job_end>> ])
         /\ \A job \in DOMAIN ran :
              /\ Len(ran[job]) <= 1
              /\ \A e \in DOMAIN ran[job] :
                   w[ran[job][e]].job_start <= job /\ job < w[ran[job][e]].job_end
              /\ StepOver => Len(ran[job]) = 1

\* Two workers have finished a step of an odd number (at least 3) of jobs.
C10_Witness ==
    /\ StepOver
    /\ DOMAIN w = {0, 1}
    /\ g.n_jobs >= 3
    /\ g.n_jobs % 2 = 1

----------------------------------------------------------------------------
(* The workspace sizer: gemm_req -> f64::gemm_req -> gemm_basic_req_generic, *)
(* followed by a gemm call that carves its scratch out of a stack of the    *)
(* returned size.  usize is a word of WordBits bits: a product that does    *)
(* not fit wraps in a build without overflow checks and aborts the call in  *)
(* a build with them.                                                       *)

WordBits == 12
Word == 2 ^ WordBits

wrap(x) == x % Word
fits(x) == x < Word

SizeOverflow == [ ok |-> FALSE, size |-> 0 ]

\* dyn_stack: len elements of T as bytes, the conversion checked.  Every
\* length below is a whole number of cache lines, so alignment adds nothing.
try_new_aligned(len) ==
    IF fits(len * SIZE_OF_T)
    THEN [ ok |-> TRUE, size |-> len * SIZE_OF_T ]
    ELSE SizeOverflow

\* dyn_stack: one requirement after the other, the sum checked.
try_and(a, b) ==
    IF fits(a.size + b.size)
    THEN [ ok |-> TRUE, size |-> a.size + b.size ]
    ELSE SizeOverflow

\* dyn_stack: enough for either requirement.
try_any_of(a, b) == Max(a, b)

\* The callers gemm_req is asked to provide for: few threads, and thread
\* counts near the word size divided by the size of one L block.
MaxThreadCounts ==
    { 1, MaxThreads, Word \div 64, Word \div 16, Word \div 8 }

\* The result of one gemm_basic_req_generic call: outcome is "Ok", "Overflow"
\* (the Err variant) or "Panic" (arithmetic overflow in a checked build);
\* wrapped tells whether a product the call evaluated did not fit the word.
gemm_basic_req_generic(mr, nr, m, n, k, max_n_threads, checks) ==
    LET kp == kernel_params(m, n, k)
        kc_nr == kp.kc * nr
        rhs_round == div_ceil(wrap(kc_nr), simd_stride) * simd_stride
        packed_rhs_stride == wrap(rhs_round)
        kc_mr == kp.kc * mr
        lhs_round == div_ceil(wrap(kc_mr), simd_stride) * simd_stride
        packed_lhs_stride == wrap(lhs_round)
        rhs_len == packed_rhs_stride * (kp.nc \div nr)
        rhs_req == try_new_aligned(wrap(rhs_len))
        t_stride == max_n_threads * packed_lhs_stride
        lhs_len == wrap(t_stride) * (kp.mc \div mr)
        lhs_req == try_new_aligned(wrap(lhs_len))
        early == ~(fits(kc_nr) /\ fits(rhs_round) /\ fits(kc_mr)
                     /\ fits(lhs_round) /\ fits(rhs_len))
        late == ~(fits(t_stride) /\ fits(lhs_len))
        both == try_and(rhs_req, lhs_req)
    IN  IF checks /\ early
        THEN [ outcome |-> "Panic", size |-> 0, wrapped |-> TRUE ]
        ELSE IF ~rhs_req.ok
        THEN [ outcome |-> "Overflow", size |-> 0, wrapped |-> early ]
        ELSE IF checks /\ late
        THEN [ outcome |-> "Panic", size |-> 0, wrapped |-> TRUE ]
        ELSE IF ~lhs_req.ok
        THEN [ outcome |-> "Overflow", size |-> 0, wrapped |-> early \/ late ]
        ELSE [ outcome |-> IF both.ok THEN "Ok" ELSE "Overflow",
               size |-> both.size, wrapped |-> early \/ late ]

ReqPc(outcome, next) ==
    IF outcome = "Ok" THEN next
    ELSE IF outcome = "Overflow" THEN "overflow" ELSE "panic"

ReqInput(m, n, k, kp1, kp2) ==
    [ m |-> m, n |-> n, k |-> k, kp_mn |-> kp1, kp_nm |-> kp2 ]

InitReq ==
    /\ \E m \in 1 .. MaxM, n \in 1 .. MaxN, k \in 2 .. MaxK,
          kp1 \in KernelParamsRange, kp2 \in KernelParamsRange :
         inp = ReqInput(m, n, k, kp1, IF m = n THEN kp1 ELSE kp2)
    /\ \E ty \in {"f64", "other"}, t \in MaxThreadCounts, checks \in BOOLEAN :
         req = [ pc |-> "call", ty |-> ty, max_n_threads |-> t,
                 overflow_checks |-> checks, first |-> 0, size |-> 0,
                 wrapped |-> FALSE, n_threads |-> 0, transposed |-> FALSE,
                 need |-> 0 ]
    /\ pc = "idle"
    /\ Idle
    /\ dmem = <<>>
    /\ hist = <<>>
    /\ fb = FbIdle

ReqFrame == UNCHANGED <<inp, pc, g, dmem, packed_rhs, packed_lhs, w, ev, hist, ran, fb>>

\* gemm_req::<T>: the per-type sizer for f64, no scratch for any other type.
GemmReq ==
    /\ req.pc = "call"
    /\ req' = IF req.ty = "f64"
              THEN [ req EXCEPT !.pc = "first" ]
              ELSE [ req EXCEPT !.pc = "ok", !.size = 0 ]
    /\ ReqFrame

\* (GEMM.1)(n, m, k, max_n_threads)?
ReqFirst ==
    /\ req.pc = "first"
    /\ LET r == gemm_basic_req_generic(MR, NR, inp.n, inp.m, inp.k,
                                       req.max_n_threads, req.overflow_checks)
       IN  req' = [ req EXCEPT !.pc = ReqPc(r.outcome, "second"),
                               !.first = r.size,
                               !.wrapped = r.wrapped ]
    /\ ReqFrame

\* (GEMM.1)(m, n, k, max_n_threads)?  then  StackReq::try_any_of([.., ..])
ReqSecond ==
    /\ req.pc = "second"
    /\ LET r == gemm_basic_req_generic(MR, NR, inp.m, inp.n, inp.k,
                                       req.max_n_threads, req.overflow_checks)
       IN  req' = [ req EXCEPT !.pc = ReqPc(r.outcome, "ok"),
                               !.size = try_any_of(req.first, r.size),
                               !.wrapped = req.wrapped \/ r.wrapped ]
    /\ ReqFrame

\* The scratch gemm_basic_generic carves (lines 199-222) when it is called
\* with n_threads threads and the strides hand it the shape as given or
\* transposed; both happen for every shape with k > 1, which InitReq keeps to.
CarveNeed(m, n, k, n_threads) ==
    LET kp == kernel_params(m, n, k)
        nt == TopThreads(m, kp.nc, kp.kc, n_threads)
    IN  (PackedRhsLen(kp.kc, kp.nc) + PackedLhsLen(kp.kc, kp.mc, nt)) * SIZE_OF_T

\* gemm on a stack of exactly the size gemm_req returned.
ReqCarve ==
    /\ req.pc = "ok"
    /\ req.ty = "f64"
    /\ \E n_threads \in 1 .. Min(req.max_n_threads, MaxThreads), t \in BOOLEAN :
         LET need == IF t THEN CarveNeed(inp.n, inp.m, inp.k, n_threads)
                     ELSE CarveNeed(inp.m, inp.n, inp.k, n_threads)
         IN  req' = [ req EXCEPT
                        !.pc = IF need <= req.size THEN "carved" ELSE "exhausted",
                        !.n_threads = n_threads, !.transposed = t,
                        !.need = need ]
    /\ ReqFrame

NextReq ==
    \/ GemmReq
    \/ ReqFirst
    \/ ReqSecond
    \/ ReqCarve

SpecReq == InitReq /\ [][NextReq]_vars

\* C6: gemm_req returns Overflow whenever a product of its size computation
\* does not fit the word; it never returns Ok (nor aborts) after one wrapped.
C6_OverflowReported ==
    req.wrapped => req.pc \in {"first", "second", "overflow"}

\* C7: the scratch gemm carves, for any n_threads <= max_threads and either
\* orientation, is no more than what gemm_req(m, n, k, max_threads) returned.
C7_CarveWithinReq ==
    req.pc \in {"carved", "exhausted"} => req.need <= req.size

\* A run of the sizer in a build without overflow checks returned Ok although
\* max_n_threads * packed_lhs_stride did not fit the word.
C6_Witness ==
    /\ req.pc = "ok"
    /\ req.wrapped
    /\ ~req.overflow_checks

\* A single-threaded gemm did not find its scratch in the stack gemm_req sized.
C7_Witness ==
    /\ req.pc = "exhausted"
    /\ req.n_threads = 1
    /\ req.n_threads <= req.max_n_threads

\* Where no product wrapped, the carve does stay within the returned size.
CarveWithinReqUnlessWrapped ==
    (req.pc \in {"carved", "exhausted"} /\ ~req.wrapped) => req.need <= req.size

----------------------------------------------------------------------------
(* gemm_fallback: the triple loop for element types other than f32 / f64.  *)
(* With n_threads = 1 the calling thread walks the cells row by row; with   *)
(* any other n_threads both loops are rayon parallel iterators, whose items *)
(* are run, each once, by whichever thread of the pool takes them.          *)

FbSide == 2
PoolThreads == 2

FbCells == (0 .. inp.m - 1) \X (0 .. inp.n - 1)
NoCell == <<>>
Caller == 0

FbInput(m, n, k, dl, ds, sc, t) ==
    Input(m, n, k, dl, ds, "col", "row", 1, sc, t,
          CHOOSE kp \in KernelParamsRange : TRUE)

InitFallback ==
    /\ \E m \in 0 .. FbSide, n \in 0 .. FbSide, k \in 0 .. FbSide,
          dl \in Layouts, ds \in Signs \X Signs, sc \in Scalars,
          t \in 1 .. MaxThreads :
         inp = FbInput(m, n, k, dl, ds, sc, t)
    /\ pc = "idle"
    /\ Idle
    /\ dmem = DMemIn(inp.D)
    /\ hist = [ a \in 0 .. inp.D.size - 1 |-> <<>> ]
    /\ req = ReqIdle
    /\ fb = [ pc |-> "call" ]

FbFrame == UNCHANGED <<inp, pc, g, packed_rhs, packed_lhs, w, ev, hist, ran, req>>

\* gemm::<T> for T other than f64 / f32; let _stack = stack; the branch taken.
FbCall ==
    /\ fb.pc = "call"
    /\ fb' = [ pc    |-> IF inp.n_threads = 1 THEN "serial" ELSE "parallel",
               next  |-> 0,
               rows  |-> [ row \in 0 .. inp.m - 1 |-> -1 ],
               cells |-> [ c \in FbCells |-> [ st |-> "todo", by |-> -1, runs |-> 0 ] ],
               busy  |-> [ t \in 0 .. PoolThreads - 1 |-> NoCell ],
               accum |-> [ t \in 0 .. PoolThreads - 1 |-> 0 ] ]
    /\ UNCHANGED dmem
    /\ FbFrame

\* for depth in 0..k { accum = accum + lhs(row, depth) * rhs(depth, col) }
\* accum = accum * beta
FbAccum(row, col) ==
    inp.beta * SeqSum([ d \in 1 .. inp.k |->
        SrcRead("L", inp.L.base + row * inp.L.rs + (d - 1) * inp.L.cs)
          * SrcRead("R", inp.R.base + (d - 1) * inp.R.rs + col * inp.R.cs) ])

\* if read_dst { accum = accum + alpha * *dst }  *dst = accum
FbStore(mem, row, col, accum) ==
    LET a == AddrOf(inp.D, row, col)
    IN  [ mem EXCEPT ![a] = IF inp.read_dst THEN accum + inp.alpha * mem[a]
                            ELSE accum ]

FbRan(cell, t) ==
    [ fb.cells[cell] EXCEPT !.st = "done", !.by = t, !.runs = @ + 1 ]

\* n_threads == 1: the next cell of (0..m).for_each(|row| (0..n).for_each(..)).
FbSerialCell ==
    /\ fb.pc = "serial"
    /\ fb.next < inp.m * inp.n
    /\ LET row == fb.next \div inp.n
           col == fb.next % inp.n
       IN  /\ dmem' = FbStore(dmem, row, col, FbAccum(row, col))
           /\ fb' = [ fb EXCEPT !.next = @ + 1,
                                !.rows[row] = Caller,
                                !.cells[<<row, col>>] = FbRan(<<row, col>>, Caller) ]
    /\ FbFrame

\* Mutant: an item of the inner iterator stays available after it was taken.
FbAvailable_Again(cell) == fb.rows[cell[1]] # -1

\* An item of the inner iterator of a row whose closure is running.
FbAvailable(cell) ==
    /\ fb.rows[cell[1]] # -1
    /\ fb.cells[cell].st = "todo"

\* (0..m).into_par_iter(): a pool thread takes a row and runs its closure,
\* which makes the row's columns the items of (0..n).into_par_iter().
FbOpenRow(t) ==
    /\ fb.pc = "parallel"
    /\ fb.busy[t] = NoCell
    /\ \E row \in 0 .. inp.m - 1 :
         /\ fb.rows[row] = -1
         /\ fb' = [ fb EXCEPT !.rows[row] = t ]
    /\ UNCHANGED dmem
    /\ FbFrame

\* A pool thread takes a column of an open row and runs the depth loop.
FbBeginCell(t) ==
    /\ fb.pc = "parallel"
    /\ fb.busy[t] = NoCell
    /\ \E cell \in FbCells :
         /\ FbAvailable(cell)
         /\ fb' = [ fb EXCEPT !.cells[cell].st = "running",
                              !.cells[cell].by = t,
                              !.busy[t] = cell,
                              !.accum[t] = FbAccum(cell[1], cell[2]) ]
    /\ UNCHANGED dmem
    /\ FbFrame

\* The thread stores its cell.
FbStoreCell(t) ==
    /\ fb.pc = "parallel"
    /\ fb.busy[t] # NoCell
    /\ LET cell == fb.busy[t]
       IN  /\ dmem' = FbStore(dmem, cell[1], cell[2], fb.accum[t])
           /\ fb' = [ fb EXCEPT !.cells[cell] = FbRan(cell, t),
                                !.busy[t] = NoCell ]
    /\ FbFrame

\* Both loops are over.
FbReturn ==
    /\ fb.pc \in {"serial", "parallel"}
    /\ IF fb.pc = "serial"
       THEN fb.next = inp.m * inp.n
       ELSE /\ \A row \in 0 .. inp.m - 1 : fb.rows[row] # -1
            /\ \A cell \in FbCells : fb.cells[cell].st = "done"
            /\ \A t \in 0 .. PoolThreads - 1 : fb.busy[t] = NoCell
    /\ fb' = [ fb EXCEPT !.pc = "done" ]
    /\ UNCHANGED dmem
    /\ FbFrame

NextFallback ==
    \/ FbCall
    \/ FbSerialCell
    \/ \E t \in 0 .. PoolThreads - 1 : FbOpenRow(t)
    \/ \E t \in 0 .. PoolThreads - 1 : FbBeginCell(t)
    \/ \E t \in 0 .. PoolThreads - 1 : FbStoreCell(t)
    \/ FbReturn

SpecFallback == InitFallback /\ [][NextFallback]_vars

FbStarted == fb.pc \in {"serial", "parallel", "done"}

FbScratchUntouched ==
    /\ packed_rhs = <<>>
    /\ packed_lhs = <<>>
    /\ ev = {}

\* C9: the fallback never touches the scratch and, in parallel, spreads work
\* over threads along the rows only: every column of a row is computed by the
\* thread that took the row, one column at a time.
C9_RowsOnly ==
    /\ FbScratchUntouched
    /\ (FbStarted /\ inp.n_threads # 1) =>
          \A cell \in FbCells :
             /\ fb.cells[cell].by \in {-1, fb.rows[cell[1]]}
             /\ \A other \in FbCells :
                  (other[1] = cell[1] /\ other # cell /\ fb.cells[cell].st = "running")
                      => fb.cells[other].st # "running"

\* C9 as the code has it: the fallback never touches the scratch; every cell
\* of D is computed exactly once, by the calling thread in row-major order
\* when n_threads = 1 and otherwise by any thread of the pool, rows and
\* columns alike being parallel items; D holds the contract on return.
C9_CellsOnce ==
    /\ FbScratchUntouched
    /\ FbStarted =>
          /\ \A cell \in FbCells :
               /\ fb.cells[cell].runs <= 1
               /\ fb.cells[cell].runs = 1 <=> fb.cells[cell].st = "done"
               /\ inp.n_threads = 1 =>
                    /\ fb.cells[cell].by \in {-1, Caller}
                    /\ fb.cells[cell].st = "done" <=> cell[1] * inp.n + cell[2] < fb.next
          /\ fb.pc = "done" =>
               \A cell \in FbCells :
                  /\ fb.cells[cell].st = "done"
                  /\ dmem[AddrOf(inp.D, cell[1], cell[2])] = Reference(cell[1], cell[2])

\* A parallel call returned after two threads of the pool each computed a
\* column of the same row.
C9_Witness ==
    /\ fb.pc = "done"
    /\ inp.n_threads # 1
    /\ \E c1 \in FbCells, c2 \in FbCells :
         /\ c1[1] = c2[1]
         /\ fb.cells[c1].by # fb.cells[c2].by

----------------------------------------------------------------------------
(* Further properties of the blocked driver, checked under Spec. *)

\* The alpha the claim gives the kernels of the slice starting at depth_outer.
SliceAlpha(depth_outer) ==
    IF depth_outer = 0 THEN (IF inp.read_dst THEN inp.alpha ELSE 0) ELSE 1

\* C11: every kernel of a first depth slice (depth_outer = 0) runs with the
\* caller's alpha (0 without read_dst) and every kernel of a later slice with
\* alpha = 1; the table is the zero table iff that alpha is 0, the one table iff
\* it is 1, the general table otherwise; so on return each element has been
\* through exactly one first-slice kernel, before all others, and holds
\* alpha*D_in + beta*sum L*R with alpha applied once.
C11_AlphaOncePerPanel ==
    InDriver =>
        /\ pc = "join" => g.alpha_s = SliceAlpha(g.depth_outer)
        /\ \A x \in DOMAIN hist : \A e \in DOMAIN hist[x] :
             LET h == hist[x][e]
             IN  /\ h.alpha = SliceAlpha(h.depth_outer)
                 /\ h.table = "zero" <=> h.alpha = 0
                 /\ h.table = "one" <=> h.alpha = 1
                 /\ h.table = "generic" <=> h.alpha \notin {0, 1}
                 /\ h.depth_outer = 0 <=> e = 1
        /\ Done =>
             \A i \in 0 .. inp.m - 1, j \in 0 .. inp.n - 1 :
                LET x == AddrOf(inp.D, i, j)
                IN  /\ Cardinality({ e \in DOMAIN hist[x] : hist[x][e].depth_outer = 0 }) = 1
                    /\ dmem[x] = Reference(i, j)

\* A call with read_dst and alpha = 3 over two column panels and two depth
\* slices has returned.
C11_Witness ==
    /\ Done
    /\ InDriver
    /\ g.n > g.nc
    /\ g.k > g.kc
    /\ inp.read_dst
    /\ inp.alpha = 3

WorkersAtRest == \A tid \in DOMAIN w : w[tid].pc = "done"

\* Kernel invocations on one element come panel by panel and, within a panel,
\* in strictly increasing depth; none belongs to a step the driver has not begun.
DepthOrdered ==
    \A x \in DOMAIN hist :
        /\ \A e1, e2 \in DOMAIN hist[x] :
             e1 < e2 => /\ hist[x][e1].col_outer = hist[x][e2].col_outer
                        /\ hist[x][e1].depth_outer + hist[x][e1].k_chunk
                             <= hist[x][e2].depth_outer
        /\ \A e \in DOMAIN hist[x] :
             InDriver =>
                \/ hist[x][e].col_outer < g.col_outer
                \/ /\ hist[x][e].col_outer = g.col_outer
                   /\ hist[x][e].depth_outer + hist[x][e].k_chunk
                        <= g.depth_outer + (IF pc = "join" THEN g.k_chunk ELSE 0)

\* What the driver thread does between two parallel sections.
DriverMoves ==
    \/ packed_rhs' # packed_rhs
    \/ g'.alpha_s # g.alpha_s
    \/ g'.depth_outer # g.depth_outer
    \/ g'.col_outer # g.col_outer
    \/ (w' # <<>> /\ DOMAIN w' # DOMAIN w)

\* C12: the packed-R buffer is written, alpha set to 1, depth_outer advanced and
\* the workers of a step started only while no worker is running (all workers
\* of the step before have finished); workers exist only inside a step; the
\* writes to one D element from different depth slices come in increasing
\* depth order, never overlapping.
C12_BulkSynchronous ==
    /\ [](pc # "join" => w = <<>>)
    /\ []DepthOrdered
    /\ [][DriverMoves => WorkersAtRest]_vars

\* After a parallel step over a packed R the driver is about to repack R for
\* the next depth slice of the panel.
C12_Witness ==
    /\ pc = "slice"
    /\ g.depth_outer > 0
    /\ g.depth_outer < g.k
    /\ g.do_pack_rhs
    /\ g.n_threads_step > 1

\* The elements of the L buffer worker tid may touch in the current step:
\* blocks 0 .. ceil(m_chunk / MR) - 1 of its sub-region, for the row band of
\* m_chunk rows.
LhsRegion(tid, m_chunk) ==
    LET base == w[tid].packed_lhs
    IN  base .. base + div_ceil(m_chunk, MR) * g.packed_lhs_stride - 1

\* The row bands of the step, by their number of rows.
BandSizes ==
    LET bands == Bands(g.m, g.mc, 0)
    IN  { bands[b][2] : b \in DOMAIN bands }

\* The L-buffer elements the kernel of a worker's current tile reads.
TileLhsReads(tid) ==
    LET t == Tile(w[tid])
    IN  { t.lhs.off + r + p * t.packed_lhs_cs :
            r \in 0 .. t.m_chunk_inner - 1, p \in 0 .. g.k_chunk - 1 }

\* C13: in every step the packed-L ranges of two distinct workers are disjoint,
\* whatever row bands they are on, and each lies inside the L buffer as carved;
\* the sub-region starts at tid * packed_lhs_stride * min(mc / MR, ceil(m / MR));
\* what a worker's kernel reads of the L buffer lies in its own range.
C13_PrivateLhsRegions ==
    pc = "join" =>
        \A tid1 \in DOMAIN w :
            /\ w[tid1].packed_lhs
                 = tid1 * g.packed_lhs_stride * Min(g.mc \div MR, div_ceil(g.m, MR))
            /\ \A b1 \in BandSizes :
                 /\ LhsRegion(tid1, b1) \subseteq DOMAIN packed_lhs
                 /\ Cardinality(DOMAIN packed_lhs)
                      = g.n_threads * g.packed_lhs_stride * (g.mc \div MR)
                 /\ \A tid2 \in DOMAIN w \ {tid1}, b2 \in BandSizes :
                      LhsRegion(tid1, b1) \cap LhsRegion(tid2, b2) = {}
            /\ (w[tid1].pc = "tile" /\ w[tid1].do_pack_lhs /\ OwnsJob(w[tid1]))
                 => TileLhsReads(tid1) \subseteq LhsRegion(tid1, MChunk(w[tid1]))

\* Two workers are in their tile loops, each on a band it packed into its own
\* range of the L buffer.
C13_Witness ==
    /\ pc = "join"
    /\ DOMAIN w = {0, 1}
    /\ \A tid \in DOMAIN w : w[tid].pc = "tile" /\ w[tid].do_pack_lhs
    /\ w[1].packed_lhs > 0

\* The R-buffer elements the kernel of a worker's current tile reads.
TileRhsReads(tid) ==
    LET t == Tile(w[tid])
    IN  { t.rhs.off + p * t.packed_rhs_rs + c * t.packed_rhs_cs :
            p \in 0 .. g.k_chunk - 1, c \in 0 .. t.n_chunk_inner - 1 }

WrittenBy(buf, x, tag) ==
    /\ x \in DOMAIN buf
    /\ buf[x] # Unwritten
    /\ buf[x][2] = tag

\* C14: no kernel reads scratch that was never written or that an earlier pack
\* left behind: every packed-R element a kernel is about to read was written by
\* the pack_rhs of the current (col_outer, depth_outer) step, and every packed-L
\* element a worker's kernel is about to read was written by that worker's
\* own pack_lhs for the current row band in the current step.
C14_ScratchFresh ==
    /\ "uninit_read" \notin ev
    /\ pc = "join" =>
         \A tid \in DOMAIN w :
            (w[tid].pc = "tile" /\ OwnsJob(w[tid])) =>
                /\ g.do_pack_rhs =>
                     \A x \in TileRhsReads(tid) : WrittenBy(packed_rhs, x, RhsTag)
                /\ w[tid].do_pack_lhs =>
                     \A x \in TileLhsReads(tid) : WrittenBy(packed_lhs, x, LhsTag(tid))

\* In a later depth slice, when both buffers hold what the slice before packed,
\* a worker other than the first is about to run a kernel on packed L and R.
C14_Witness ==
    /\ pc = "join"
    /\ g.depth_outer > 0
    /\ g.do_pack_rhs
    /\ \E tid \in DOMAIN w \ {0} :
         w[tid].pc = "tile" /\ OwnsJob(w[tid]) /\ w[tid].do_pack_lhs

\* The linear index of the first tile of the band a worker is in the tile
\* loop of (job_id as it was at the head of the band).
BandFirstJob(me) == me.job_id - (me.j * n_row_mini_chunks(MChunk(me)) + me.i)

\* Whether the band's jobs [first, first + n_mini_jobs) meet [job_start, job_end).
BandMeetsAssignment(me) ==
    /\ me.job_start < me.job_end
    /\ BandFirstJob(me) < me.job_end
    /\ me.job_start < BandFirstJob(me) + NMiniJobs(me)

\* C15: a worker packs its L panel for a row band only if the band's job range
\* intersects its assignment; with an empty assignment, or one that begins
\* exactly where the band ends, it does not pack the band.
C15_PacksOnlyOwnBands ==
    pc = "join" =>
        \A tid \in DOMAIN w :
            (w[tid].pc = "tile" /\ w[tid].do_pack_lhs) => BandMeetsAssignment(w[tid])

\* A worker has packed a band whose last job is the one just before its
\* assignment.
C15_Witness ==
    /\ pc = "join"
    /\ \E tid \in DOMAIN w :
         /\ w[tid].pc = "tile"
         /\ w[tid].do_pack_lhs
         /\ w[tid].job_start < w[tid].job_end
         /\ BandFirstJob(w[tid]) + NMiniJobs(w[tid]) = w[tid].job_start

----------------------------------------------------------------------------
(* Properties of the wrapper and the pre-normalisation, checked under Spec. *)

\* The states in which g holds the normalised arguments.
AfterNormalise ==
    \/ pc \in {"dispatch", "panel", "slice", "join"}
    \/ (Done /\ inp.m > 0 /\ inp.n > 0)

\* The caller's element an operand address of the normalised problem falls on.
CallerIndex(ptr, d) ==
    IndexAt(IF ptr.buf = "L" THEN inp.L ELSE inp.R, ptr.off + d)

\* C16: after the pre-normalisation dst_rs >= 0 and dst_cs >= 0, whatever the
\* signs of the caller's strides and whichever transposes fired; element
\* (row, col) of the normalised D is an element D[i,j] of the caller's, each
\* exactly once, and the normalised operands pair with it: the two factors at
\* depth p are the caller's L[i,p] and R[p,j].
C16_NormalisedViews ==
    AfterNormalise =>
        /\ g.dst_rs >= 0
        /\ g.dst_cs >= 0
        /\ g.m * g.n = inp.m * inp.n
        /\ { DstAddr(g, row, col) : row \in 0 .. g.m - 1, col \in 0 .. g.n - 1 }
             = { AddrOf(inp.D, i, j) : i \in 0 .. inp.m - 1, j \in 0 .. inp.n - 1 }
        /\ \A row \in 0 .. g.m - 1, col \in 0 .. g.n - 1, p \in 0 .. g.k - 1 :
             LET ij == IndexAt(inp.D, DstAddr(g, row, col))
                 l == CallerIndex(g.lhs, row * g.lhs_rs + p * g.lhs_cs)
                 r == CallerIndex(g.rhs, p * g.rhs_rs + col * g.rhs_cs)
             IN  IF g.lhs.buf = "L"
                 THEN g.rhs.buf = "R" /\ l = <<ij[1], p>> /\ r = <<p, ij[2]>>
                 ELSE g.rhs.buf = "L" /\ l = <<p, ij[2]>> /\ r = <<ij[1], p>>

\* A destination reversed along both axes went through the wrapper transpose
\* and the gevm transpose.
C16_Witness ==
    /\ pc = "dispatch"
    /\ inp.D.rs < 0
    /\ inp.D.cs < 0
    /\ g.transposed
    /\ g.gevm
    /\ g.m > 1 /\ g.n > 1 /\ g.k > 1

\* The arguments after the wrapper and the two sign reversals, lines 68-80.
SignNormalised == NegDstCs(NegDstRs(g))

\* C17: once the wrapper transpose (dst_cs < dst_rs) and the sign
\* normalisation have been applied, the destination strides satisfy
\* dst_rs <= dst_cs, for every input, negative destination strides included.
C17_TallOutput ==
    (pc = "generic" /\ ~EmptyOutput(g)) =>
        SignNormalised.dst_rs <= SignNormalised.dst_cs

\* The blocked driver runs on a destination whose row stride is the larger
\* one: the wrapper compared the signed strides of a reversed destination.
C17_Witness ==
    /\ pc = "slice"
    /\ inp.D.rs < 0
    /\ g.m > 1 /\ g.n > 1
    /\ g.dst_rs > g.dst_cs

\* With destination strides that are not negative the wrapper does leave the
\* smaller stride on the row axis.
TallOutputWhenForward ==
    (pc = "generic" /\ ~EmptyOutput(g) /\ inp.D.rs >= 0 /\ inp.D.cs >= 0) =>
        SignNormalised.dst_rs <= SignNormalised.dst_cs

\* C18: every kernel lookup of the blocked driver is in bounds: each tile a
\* worker reaches has 1 <= m_chunk_inner <= MR and 1 <= n_chunk_inner <= NR, and
\* the table indices (m_chunk_inner + (N - 1)) / N - 1 and n_chunk_inner - 1 lie
\* in [0, MR_DIV_N) and [0, NR).
C18_LookupInBounds ==
    \A tid \in DOMAIN w :
        w[tid].pc = "tile" =>
            LET t == Tile(w[tid])
            IN  /\ 1 <= t.m_chunk_inner /\ t.m_chunk_inner <= MR
                /\ 1 <= t.n_chunk_inner /\ t.n_chunk_inner <= NR
                /\ t.row = (t.m_chunk_inner + (N - 1)) \div N - 1
                /\ t.col = t.n_chunk_inner - 1
                /\ t.row \in 0 .. MR_DIV_N - 1
                /\ t.col \in 0 .. NR - 1

\* A worker is about to run the kernel on a corner tile that is short in both
\* directions, in a later column of tiles.
C18_Witness ==
    \E tid \in DOMAIN w :
        /\ w[tid].pc = "tile"
        /\ OwnsJob(w[tid])
        /\ w[tid].j > 0
        /\ Tile(w[tid]).m_chunk_inner < MR
        /\ Tile(w[tid]).n_chunk_inner < NR

\* What only the blocked driver does: the block-size query, the scratch
\* carve, the packing and the fork of workers.
DriverEvents == {"kernel_params", "carve", "pack_rhs", "pack_lhs", "fork"}

\* C19: whenever the gevm transpose fires, the swapped problem satisfies the
\* GEMV condition (n <= 4 and |lhs_rs| <= |lhs_cs|), so the call completes in
\* a degenerate handler (k == 0, k == 1 or GEMV) and never reaches the blocked
\* driver: no block-size query, no scratch carve, no packing and no threads.
C19_GevmStaysDegenerate ==
    g.gevm =>
        /\ GemvCondition(g)
        /\ pc \in {"dispatch", "done"}
        /\ ev \cap DriverEvents = {}
        /\ w = <<>>
        /\ packed_rhs = <<>>
        /\ packed_lhs = <<>>
        /\ (pc = "done" => ("zero_dst" \in ev \/ g.k = 1))

\* A call of depth greater than one whose gevm transpose fired has finished
\* in the GEMV handler, the long extent now on the rows.
C19_Witness ==
    /\ pc = "done"
    /\ g.gevm
    /\ g.k > 1
    /\ g.m > 4
    /\ g.n > 1
    /\ "read_lhs" \in ev

============================================================================
